---------------------------- MODULE Spec2Model ----------------------------
(***************************************************************************)
(* A model of the rayfloat path tracer: the bounding boxes, the sphere     *)
(* intersection, the BVH build and traversal, the materials and the        *)
(* iterative path integrator.                                              *)
(*                                                                         *)
(* Numbers.  The program computes in IEEE doubles.  A double is modelled   *)
(* as a record [n, d] read as the fraction n/d:                            *)
(*    d > 0, gcd(n,d) = 1, n # 0   a finite non-zero value                 *)
(*    n = 0, d = 1 / d = -1        +0.0 / -0.0                             *)
(*    n = 1 / n = -1, d = 0        +infinity / -infinity                   *)
(*    n = 0, d = 0                 NaN                                     *)
(* The operators below follow IEEE 754 on the special values (x/0, 0*inf,  *)
(* inf-inf, comparisons with NaN) and are exact on the finite ones: the    *)
(* model leaves out rounding, and Sqrt is defined on perfect squares only, *)
(* so the inputs are chosen to keep every square root rational.            *)
(***************************************************************************)
EXTENDS Integers, Sequences, FiniteSets, TLC

IAbs(i) == IF i < 0 THEN -i ELSE i

RECURSIVE GCD(_, _)
GCD(a, b) == IF b = 0 THEN a ELSE GCD(b, a % b)

PZero == [n |-> 0, d |-> 1]
NZero == [n |-> 0, d |-> -1]
PInf == [n |-> 1, d |-> 0]
NInf == [n |-> -1, d |-> 0]
NaN == [n |-> 0, d |-> 0]

\* The double n/d for integers n and d > 0.
Q(n, d) ==
    IF d = 1 THEN [n |-> n, d |-> 1]
    ELSE IF n = 0 THEN PZero
    ELSE LET g == GCD(IAbs(n), d) IN [n |-> n \div g, d |-> d \div g]

I(i) == Q(i, 1)
One == I(1)

IsNaN(a) == a.n = 0 /\ a.d = 0
IsInf(a) == a.n # 0 /\ a.d = 0
IsZero(a) == a.n = 0 /\ a.d # 0
IsFinite(a) == a.d # 0

\* The sign bit of a non-NaN double as +1 / -1.
Sign(a) == IF a.n > 0 THEN 1 ELSE IF a.n < 0 THEN -1 ELSE a.d

SignedInf(s) == IF s > 0 THEN PInf ELSE NInf
SignedZero(s) == IF s > 0 THEN PZero ELSE NZero

Neg(a) ==
    IF IsNaN(a) THEN NaN
    ELSE IF IsZero(a) THEN [n |-> 0, d |-> -a.d]
    ELSE [n |-> -a.n, d |-> a.d]

Mul(a, b) ==
    IF a.d > 0 /\ b.d > 0 /\ a.n # 0 /\ b.n # 0 THEN Q(a.n * b.n, a.d * b.d)
    ELSE IF IsNaN(a) \/ IsNaN(b) THEN NaN
    ELSE IF (IsInf(a) /\ IsZero(b)) \/ (IsZero(a) /\ IsInf(b)) THEN NaN
    ELSE IF IsInf(a) \/ IsInf(b) THEN SignedInf(Sign(a) * Sign(b))
    ELSE IF IsZero(a) \/ IsZero(b) THEN SignedZero(Sign(a) * Sign(b))
    ELSE Q(a.n * b.n, a.d * b.d)

Add(a, b) ==
    IF a.d > 0 /\ b.d > 0 THEN Q(a.n * b.d + b.n * a.d, a.d * b.d)
    ELSE IF IsNaN(a) \/ IsNaN(b) THEN NaN
    ELSE IF IsInf(a) /\ IsInf(b) THEN (IF a = b THEN a ELSE NaN)
    ELSE IF IsInf(a) THEN a
    ELSE IF IsInf(b) THEN b
    ELSE IF IsZero(a) /\ IsZero(b)
         THEN (IF a = NZero /\ b = NZero THEN NZero ELSE PZero)
    ELSE IF IsZero(a) THEN b
    ELSE IF IsZero(b) THEN a
    ELSE Q(a.n * b.d + b.n * a.d, a.d * b.d)

Sub(a, b) == Add(a, Neg(b))

Recip(a) ==
    IF IsNaN(a) THEN NaN
    ELSE IF IsZero(a) THEN SignedInf(a.d)
    ELSE IF IsInf(a) THEN SignedZero(a.n)
    ELSE IF a.n > 0 THEN Q(a.d, a.n) ELSE Q(-a.d, -a.n)

Div(a, b) == Mul(a, Recip(b))

\* a < b; false when either is NaN, and -0.0 is not below +0.0.
Lt(a, b) ==
    IF a.d > 0 /\ b.d > 0 THEN a.n * b.d < b.n * a.d
    ELSE /\ ~IsNaN(a)
         /\ ~IsNaN(b)
         /\ IF IsInf(a) \/ IsInf(b)
            THEN (a = NInf /\ b # NInf) \/ (b = PInf /\ a # PInf)
            ELSE a.n * IAbs(b.d) < b.n * IAbs(a.d)

Eq(a, b) == ~IsNaN(a) /\ ~IsNaN(b) /\ (a = b \/ (IsZero(a) /\ IsZero(b)))
Gt(a, b) == Lt(b, a)
Le(a, b) == Lt(a, b) \/ Eq(a, b)
Ge(a, b) == Le(b, a)

\* The largest r in lo..hi with r * r <= k, by bisection.
RECURSIVE ISqrtBetween(_, _, _)
ISqrtBetween(k, lo, hi) ==
    IF lo >= hi THEN lo
    ELSE LET mid == (lo + hi + 1) \div 2
         IN  IF mid <= k \div mid THEN ISqrtBetween(k, mid, hi)
             ELSE ISqrtBetween(k, lo, mid - 1)

\* The square root of a perfect square k; no value otherwise.
ISqrt(k) == CHOOSE r \in {ISqrtBetween(k, 0, k)} : r * r = k

Sqrt(a) ==
    IF IsNaN(a) THEN NaN
    ELSE IF IsZero(a) \/ a = PInf THEN a
    ELSE IF Sign(a) < 0 THEN NaN
    ELSE Q(ISqrt(a.n), ISqrt(a.d))

\* std::fmin: the smaller operand, and the other one when one is NaN.
Fmin(a, b) == IF IsNaN(a) THEN b ELSE IF IsNaN(b) THEN a ELSE IF Lt(b, a) THEN b ELSE a

\* std::min(a, b) is (b < a) ? b : a and std::max(a, b) is (a < b) ? b : a.
Min(a, b) == IF Lt(b, a) THEN b ELSE a
Max(a, b) == IF Lt(a, b) THEN b ELSE a

FAbs(a) == IF IsNaN(a) THEN NaN ELSE IF IsZero(a) THEN PZero ELSE [n |-> IAbs(a.n), d |-> a.d]

Pow5(a) == Mul(Mul(Mul(a, a), Mul(a, a)), a)

(***************************************************************************)
(* Vec3 (vec3.h) and Ray (ray.h)                                           *)
(***************************************************************************)
Vec3(x, y, z) == [x |-> x, y |-> y, z |-> z]
V(i, j, k) == Vec3(I(i), I(j), I(k))

VAdd(u, v) == Vec3(Add(u.x, v.x), Add(u.y, v.y), Add(u.z, v.z))
VSub(u, v) == Vec3(Sub(u.x, v.x), Sub(u.y, v.y), Sub(u.z, v.z))
VNeg(u) == Vec3(Neg(u.x), Neg(u.y), Neg(u.z))
VScale(u, t) == Vec3(Mul(u.x, t), Mul(u.y, t), Mul(u.z, t))
VMul(u, v) == Vec3(Mul(u.x, v.x), Mul(u.y, v.y), Mul(u.z, v.z))
VDiv(u, t) == VScale(u, Div(One, t))
dot(u, v) == Add(Add(Mul(u.x, v.x), Mul(u.y, v.y)), Mul(u.z, v.z))
length_squared(u) == Add(Add(Mul(u.x, u.x), Mul(u.y, u.y)), Mul(u.z, u.z))
length(u) == Sqrt(length_squared(u))
unit_vector(u) == VDiv(u, length(u))

\* Component a (0, 1, 2) of a vector, as the ?: chains of aabb.h and bvh.h.
Comp(u, a) == IF a = 0 THEN u.x ELSE IF a = 1 THEN u.y ELSE u.z

Ray(origin, direction) == [origin |-> origin, direction |-> direction]
at(r, t) == VAdd(r.origin, VScale(r.direction, t))


(***************************************************************************)
(* AABB (aabb.h)                                                           *)
(***************************************************************************)
AABB(a, b) == [minimum |-> a, maximum |-> b]

\* Iterations a, a+1, ... of the loop of AABB::hit, entered with the running
\* window [tmin, tmax]; Last is the loop's bound.
RECURSIVE AABB_hit_from(_, _, _, _, _, _)
AABB_hit_from(box, r, a, tmin, tmax, Last) ==
    IF a >= Last THEN TRUE
    ELSE LET origin_component == Comp(r.origin, a)
             direction_component == Comp(r.direction, a)
             min_component == Comp(box.minimum, a)
             max_component == Comp(box.maximum, a)
             invD == Div(One, direction_component)
             u0 == Mul(Sub(min_component, origin_component), invD)
             u1 == Mul(Sub(max_component, origin_component), invD)
             t0 == IF Lt(invD, PZero) THEN u1 ELSE u0
             t1 == IF Lt(invD, PZero) THEN u0 ELSE u1
             tmin2 == IF Gt(t0, tmin) THEN t0 ELSE tmin
             tmax2 == IF Lt(t1, tmax) THEN t1 ELSE tmax
         IN  IF Le(tmax2, tmin2) THEN FALSE
             ELSE AABB_hit_from(box, r, a + 1, tmin2, tmax2, Last)

\* A loop that stops one axis early.
AABB_hit_two_axes(box, r, tmin, tmax) == AABB_hit_from(box, r, 0, tmin, tmax, 2)

AABB_hit(box, r, tmin, tmax) == AABB_hit_from(box, r, 0, tmin, tmax, 3)

\* The union built with std::min on the maximum corner's z as well.
surrounding_box_min_z(b0, b1) ==
    AABB(Vec3(Min(b0.minimum.x, b1.minimum.x),
              Min(b0.minimum.y, b1.minimum.y),
              Min(b0.minimum.z, b1.minimum.z)),
         Vec3(Max(b0.maximum.x, b1.maximum.x),
              Max(b0.maximum.y, b1.maximum.y),
              Min(b0.maximum.z, b1.maximum.z)))

surrounding_box(b0, b1) ==
    AABB(Vec3(Min(b0.minimum.x, b1.minimum.x),
              Min(b0.minimum.y, b1.minimum.y),
              Min(b0.minimum.z, b1.minimum.z)),
         Vec3(Max(b0.maximum.x, b1.maximum.x),
              Max(b0.maximum.y, b1.maximum.y),
              Max(b0.maximum.z, b1.maximum.z)))


(***************************************************************************)
(* HitRecord (hittable.h) and Sphere (sphere.h)                            *)
(***************************************************************************)
NullPtr == [kind |-> "null"]

HitRecord(point, normal, t, front_face, material) ==
    [point |-> point, normal |-> normal, t |-> t, front_face |-> front_face,
     material |-> material]

\* HitRecord::set_face_normal
set_face_normal(rec, r, outward_normal) ==
    LET ff == Lt(dot(r.direction, outward_normal), PZero)
    IN  [rec EXCEPT !.front_face = ff,
                    !.normal = IF ff THEN outward_normal ELSE VNeg(outward_normal)]

\* id stands for the identity of the object the shared_ptr points to.
Sphere(id, center, radius, material) ==
    [kind |-> "sphere", id |-> id, center |-> center, radius |-> radius,
     material |-> material]

\* A default-constructed HitRecord: the Vec3 members are (0,0,0) and the material
\* is null; t and front_face are indeterminate, and no code reads them before a
\* hit has written them, so one value stands for all of them.
FreshHitRecord ==
    HitRecord(Vec3(PZero, PZero, PZero), Vec3(PZero, PZero, PZero), NaN, FALSE, NullPtr)

Miss(rec) == [hit |-> FALSE, rec |-> rec]

\* Sphere::hit with the second root never tried.
Sphere_hit_first_root_only(s, r, tmin, tmax, rec) ==
    LET oc == VSub(r.origin, s.center)
        a == length_squared(r.direction)
        half_b == dot(oc, r.direction)
        c == Sub(length_squared(oc), Mul(s.radius, s.radius))
        discriminant == Sub(Mul(half_b, half_b), Mul(a, c))
    IN  IF Lt(discriminant, PZero) THEN Miss(rec)
        ELSE LET sqrtd == Sqrt(discriminant)
                 root == Div(Sub(Neg(half_b), sqrtd), a)
             IN  IF Lt(root, tmin) \/ Gt(root, tmax) THEN Miss(rec)
                 ELSE LET point == at(r, root)
                          outward_normal == VDiv(VSub(point, s.center), s.radius)
                          rec1 == [rec EXCEPT !.t = root, !.point = point]
                          rec2 == set_face_normal(rec1, r, outward_normal)
                      IN  [hit |-> TRUE, rec |-> [rec2 EXCEPT !.material = s.material]]

\* Sphere::hit with record.t stored before the roots are tested against the window.
Sphere_hit_early_store(s, r, tmin, tmax, rec) ==
    LET oc == VSub(r.origin, s.center)
        a == length_squared(r.direction)
        half_b == dot(oc, r.direction)
        c == Sub(length_squared(oc), Mul(s.radius, s.radius))
        discriminant == Sub(Mul(half_b, half_b), Mul(a, c))
    IN  IF Lt(discriminant, PZero) THEN Miss(rec)
        ELSE LET sqrtd == Sqrt(discriminant)
                 root1 == Div(Sub(Neg(half_b), sqrtd), a)
                 root2 == Div(Add(Neg(half_b), sqrtd), a)
                 first_out == Lt(root1, tmin) \/ Gt(root1, tmax)
                 root == IF first_out THEN root2 ELSE root1
             IN  IF first_out /\ (Lt(root2, tmin) \/ Gt(root2, tmax))
                 THEN Miss([rec EXCEPT !.t = root])
                 ELSE LET point == at(r, root)
                          outward_normal == VDiv(VSub(point, s.center), s.radius)
                          rec1 == [rec EXCEPT !.t = root, !.point = point]
                          rec2 == set_face_normal(rec1, r, outward_normal)
                      IN  [hit |-> TRUE, rec |-> [rec2 EXCEPT !.material = s.material]]

Sphere_hit(s, r, tmin, tmax, rec) ==
    LET oc == VSub(r.origin, s.center)
        a == length_squared(r.direction)
        half_b == dot(oc, r.direction)
        c == Sub(length_squared(oc), Mul(s.radius, s.radius))
        discriminant == Sub(Mul(half_b, half_b), Mul(a, c))
    IN  IF Lt(discriminant, PZero) THEN Miss(rec)
        ELSE LET sqrtd == Sqrt(discriminant)
                 root1 == Div(Sub(Neg(half_b), sqrtd), a)
                 root2 == Div(Add(Neg(half_b), sqrtd), a)
                 first_out == Lt(root1, tmin) \/ Gt(root1, tmax)
                 root == IF first_out THEN root2 ELSE root1
             IN  IF first_out /\ (Lt(root2, tmin) \/ Gt(root2, tmax)) THEN Miss(rec)
                 ELSE LET point == at(r, root)
                          outward_normal == VDiv(VSub(point, s.center), s.radius)
                          rec1 == [rec EXCEPT !.t = root, !.point = point]
                          rec2 == set_face_normal(rec1, r, outward_normal)
                      IN  [hit |-> TRUE, rec |-> [rec2 EXCEPT !.material = s.material]]

\* Sphere::bounding_box: center -/+ radius on every axis.
Sphere_bounding_box(s) ==
    LET rv == Vec3(s.radius, s.radius, s.radius)
    IN  [ok |-> TRUE, box |-> AABB(VSub(s.center, rv), VAdd(s.center, rv))]


(***************************************************************************)
(* Hittable: Sphere, HittableList (hittable_list.h), BVHNode (bvh.h)       *)
(***************************************************************************)
HittableList(objs) == [kind |-> "list", objects |-> objs]
BVHNode(left, right, box) == [kind |-> "bvh", left |-> left, right |-> right, box |-> box]

RECURSIVE Hit(_, _, _, _, _)
RECURSIVE HittableList_hit_from(_, _, _, _, _, _, _, _)
RECURSIVE bounding_box(_)
RECURSIVE HittableList_bounding_box_from(_, _, _)

\* The loop of HittableList::hit from object k on; temp is temp_record.
HittableList_hit_from(objs, k, r, tmin, closest_so_far, temp, rec, hit_anything) ==
    IF k > Len(objs) THEN [hit |-> hit_anything, rec |-> rec]
    ELSE LET h == Hit(objs[k], r, tmin, closest_so_far, temp)
         IN  IF h.hit
             THEN HittableList_hit_from(objs, k + 1, r, tmin, h.rec.t, h.rec, h.rec, TRUE)
             ELSE HittableList_hit_from(objs, k + 1, r, tmin, closest_so_far, h.rec, rec,
                                        hit_anything)

HittableList_hit(l, r, tmin, tmax, rec) ==
    HittableList_hit_from(l.objects, 1, r, tmin, tmax, FreshHitRecord, rec, FALSE)

\* BVHNode::hit with the right child searched over the whole window.
BVHNode_hit_wide_right(node, r, tmin, tmax, rec) ==
    IF ~AABB_hit(node.box, r, tmin, tmax) THEN Miss(rec)
    ELSE LET L == Hit(node.left, r, tmin, tmax, rec)
             R == Hit(node.right, r, tmin, tmax, L.rec)
         IN  [hit |-> L.hit \/ R.hit, rec |-> R.rec]

BVHNode_hit(node, r, tmin, tmax, rec) ==
    IF ~AABB_hit(node.box, r, tmin, tmax) THEN Miss(rec)
    ELSE LET L == Hit(node.left, r, tmin, tmax, rec)
             R == Hit(node.right, r, tmin, IF L.hit THEN L.rec.t ELSE tmax, L.rec)
         IN  [hit |-> L.hit \/ R.hit, rec |-> R.rec]

\* The virtual call h->hit(...).
Hit(h, r, tmin, tmax, rec) ==
    IF h.kind = "sphere" THEN Sphere_hit(h, r, tmin, tmax, rec)
    ELSE IF h.kind = "list" THEN HittableList_hit(h, r, tmin, tmax, rec)
    ELSE BVHNode_hit(h, r, tmin, tmax, rec)

NoBox == AABB(Vec3(PZero, PZero, PZero), Vec3(PZero, PZero, PZero))

HittableList_bounding_box_from(objs, k, out) ==
    IF k > Len(objs) THEN [ok |-> TRUE, box |-> out]
    ELSE LET b == bounding_box(objs[k])
         IN  IF ~b.ok THEN [ok |-> FALSE, box |-> out]
             ELSE HittableList_bounding_box_from(
                      objs, k + 1, IF k = 1 THEN b.box ELSE surrounding_box(out, b.box))

HittableList_bounding_box(l) ==
    IF l.objects = <<>> THEN [ok |-> FALSE, box |-> NoBox]
    ELSE HittableList_bounding_box_from(l.objects, 1, NoBox)

BVHNode_bounding_box(node) == [ok |-> TRUE, box |-> node.box]

\* The virtual call h->bounding_box(output_box).
bounding_box(h) ==
    IF h.kind = "sphere" THEN Sphere_bounding_box(h)
    ELSE IF h.kind = "list" THEN HittableList_bounding_box(h)
    ELSE BVHNode_bounding_box(h)


(***************************************************************************)
(* BVHNode's constructor (bvh.h).  It draws a random axis, and std::sort   *)
(* may leave elements that compare equal in any order, so it is modelled   *)
(* by the set of its outcomes: [ok, node, objects], ok = FALSE when the    *)
(* std::runtime_error leaves the constructor.                              *)
(***************************************************************************)
Threw(objs) == [ok |-> FALSE, node |-> NullPtr, objects |-> objs]
Built(node, objs) == [ok |-> TRUE, node |-> node, objects |-> objs]

\* box_compare; ok = FALSE when it throws.
box_compare(a, b, axis) ==
    LET box_a == bounding_box(a)
        box_b == bounding_box(b)
    IN  IF ~box_a.ok \/ ~box_b.ok THEN [ok |-> FALSE, less |-> FALSE]
        ELSE [ok |-> TRUE,
              less |-> Lt(Comp(box_a.box.minimum, axis), Comp(box_b.box.minimum, axis))]

SpanPermutations(n) == {f \in [1..n -> 1..n] : \A i, j \in 1..n : f[i] = f[j] => i = j}

\* objs with the span [start, end) (0-based) rearranged by the permutation f.
Rearranged(objs, start, end, f) ==
    [k \in 1..Len(objs) |->
        IF k > start /\ k <= end THEN objs[start + f[k - start]] ELSE objs[k]]

\* The arrangements of the span std::sort may return: no element is less than
\* the one before it.  Elements of equal key may come in any order.
SortOutcomes(objs, start, end, axis) ==
    {o \in {Rearranged(objs, start, end, f) : f \in SpanPermutations(end - start)} :
        \A k \in (start + 1)..(end - 1) : ~box_compare(o[k + 1], o[k], axis).less}

\* What std::sort leaves behind when the comparator throws: unspecified.
SortThrowOutcomes(objs, start, end) ==
    {Rearranged(objs, start, end, f) : f \in SpanPermutations(end - start)}

\* A constructor that reports the missing box nowhere and goes on with whatever
\* the output boxes hold.
BVHNode_finish_no_throw(left, right, objs) ==
    Built(BVHNode(left, right,
                  surrounding_box(bounding_box(left).box, bounding_box(right).box)), objs)

\* The end of the constructor: the two bounding boxes and their union.
BVHNode_finish(left, right, objs) ==
    LET box_left == bounding_box(left)
        box_right == bounding_box(right)
    IN  IF ~box_left.ok \/ ~box_right.ok THEN Threw(objs)
        ELSE Built(BVHNode(left, right, surrounding_box(box_left.box, box_right.box)), objs)

RECURSIVE BVHNode_build(_, _, _)
BVHNode_build_axis(objs, start, end, axis) ==
    LET object_span == end - start
    IN  IF object_span = 1
        THEN {BVHNode_finish(objs[start + 1], objs[start + 1], objs)}
        ELSE IF object_span = 2
        THEN LET c == box_compare(objs[start + 1], objs[start + 2], axis)
             IN  IF ~c.ok THEN {Threw(objs)}
                 ELSE IF c.less
                 THEN {BVHNode_finish(objs[start + 1], objs[start + 2], objs)}
                 ELSE {BVHNode_finish(objs[start + 2], objs[start + 1], objs)}
        ELSE IF \E k \in (start + 1)..end : ~bounding_box(objs[k]).ok
        THEN {Threw(o) : o \in SortThrowOutcomes(objs, start, end)}
        ELSE LET mid == start + object_span \div 2
             IN  UNION {
                   UNION {
                     IF ~L.ok THEN {Threw(L.objects)}
                     ELSE {IF ~R.ok THEN Threw(R.objects)
                           ELSE BVHNode_finish(L.node, R.node, R.objects) :
                              R \in BVHNode_build(L.objects, mid, end)} :
                     L \in BVHNode_build(sorted, start, mid)} :
                   sorted \in SortOutcomes(objs, start, end, axis)}

\* BVHNode(objects, start, end), over every axis random_int(0, 2) may return.
BVHNode_build(objs, start, end) ==
    UNION {BVHNode_build_axis(objs, start, end, axis) : axis \in 0..2}


(***************************************************************************)
(* Materials (material.h).  A material is the value the Sphere's           *)
(* shared_ptr points to.  The random numbers a scatter call draws are an   *)
(* argument rng = [unit, attempts, uniform]: the vector random_unit_vector *)
(* returns and the number of rounds its rejection loop took (three         *)
(* random_double calls each), and the value random_double() returns.       *)
(* A call returns [ok, attenuation, scattered, draws]: the bool, the two   *)
(* output parameters (given in as att and sc, and returned untouched when  *)
(* the call does not assign them) and the number of random_double calls.   *)
(***************************************************************************)
Color(r, g, b) == Vec3(r, g, b)
Black == Color(PZero, PZero, PZero)
White == Color(One, One, One)

Lambertian(albedo) == [kind |-> "lambertian", albedo |-> albedo]
Metal(albedo, fuzz) ==
    [kind |-> "metal", albedo |-> albedo,
     fuzziness |-> IF Lt(fuzz, One) THEN fuzz ELSE One]
Dielectric(refractive_index) == [kind |-> "dielectric", ir |-> refractive_index]
DiffuseLight(color, brightness) ==
    [kind |-> "diffuse_light", emit_color |-> color, brightness |-> brightness]

near_zero(v) ==
    LET epsilon == Q(1, 100000000)
    IN  Lt(FAbs(v.x), epsilon) /\ Lt(FAbs(v.y), epsilon) /\ Lt(FAbs(v.z), epsilon)

reflect(v, n) == VSub(v, VScale(n, Mul(I(2), dot(v, n))))

refract(uv, n, etai_over_etat) ==
    LET cos_theta == Fmin(Neg(dot(uv, n)), One)
        r_out_perp == VScale(VAdd(uv, VScale(n, cos_theta)), etai_over_etat)
        r_out_parallel ==
            VScale(n, Neg(Sqrt(FAbs(Sub(One, length_squared(r_out_perp))))))
    IN  VAdd(r_out_perp, r_out_parallel)

Scattered(ok, attenuation, sc, draws) ==
    [ok |-> ok, attenuation |-> attenuation, scattered |-> sc, draws |-> draws]

\* Material::emitted and DiffuseLight::emitted
emitted(m) ==
    IF m.kind = "diffuse_light" THEN VScale(m.emit_color, m.brightness) ELSE Black

Lambertian_scatter(m, ray_in, rec, att, sc, rng) ==
    LET sum == VAdd(rec.normal, rng.unit)
        scatter_direction == IF near_zero(sum) THEN rec.normal ELSE sum
    IN  Scattered(TRUE, m.albedo, Ray(rec.point, scatter_direction), 3 * rng.attempts)

\* Metal::scatter that perturbs the reflection whenever fuzziness >= 0.
Metal_scatter_always_fuzzy(m, ray_in, rec, att, sc, rng) ==
    LET mirrored == reflect(unit_vector(ray_in.direction), rec.normal)
        fuzzy == Ge(m.fuzziness, PZero)
        reflected == IF fuzzy THEN VAdd(mirrored, VScale(rng.unit, m.fuzziness))
                     ELSE mirrored
    IN  Scattered(Gt(dot(reflected, rec.normal), PZero), m.albedo,
                  Ray(rec.point, reflected), IF fuzzy THEN 3 * rng.attempts ELSE 0)

Metal_scatter(m, ray_in, rec, att, sc, rng) ==
    LET mirrored == reflect(unit_vector(ray_in.direction), rec.normal)
        fuzzy == Gt(m.fuzziness, PZero)
        reflected == IF fuzzy THEN VAdd(mirrored, VScale(rng.unit, m.fuzziness))
                     ELSE mirrored
    IN  Scattered(Gt(dot(reflected, rec.normal), PZero), m.albedo,
                  Ray(rec.point, reflected), IF fuzzy THEN 3 * rng.attempts ELSE 0)

\* Dielectric::reflectance (Schlick)
reflectance(cosine, ref_idx) ==
    LET q == Div(Sub(One, ref_idx), Add(One, ref_idx))
        r0 == Mul(q, q)
    IN  Add(r0, Mul(Sub(One, r0), Pow5(Sub(One, cosine))))

Dielectric_scatter(m, ray_in, rec, att, sc, rng) ==
    LET refraction_ratio == IF rec.front_face THEN Div(One, m.ir) ELSE m.ir
        unit_direction == unit_vector(ray_in.direction)
        cos_theta == Fmin(Neg(dot(unit_direction, rec.normal)), One)
        sin_theta == Sqrt(Sub(One, Mul(cos_theta, cos_theta)))
        cannot_refract == Gt(Mul(refraction_ratio, sin_theta), One)
        reflects == cannot_refract
                      \/ Gt(reflectance(cos_theta, refraction_ratio), rng.uniform)
        direction == IF reflects THEN reflect(unit_direction, rec.normal)
                     ELSE refract(unit_direction, rec.normal, refraction_ratio)
    IN  Scattered(TRUE, White, Ray(rec.point, direction),
                  IF cannot_refract THEN 0 ELSE 1)

\* A light that also scatters, diffusely along the normal.
DiffuseLight_scatter_diffusing(m, ray_in, rec, att, sc, rng) ==
    Scattered(TRUE, m.emit_color, Ray(rec.point, rec.normal), 0)

DiffuseLight_scatter(m, ray_in, rec, att, sc, rng) == Scattered(FALSE, att, sc, 0)

\* The virtual call material->scatter(ray_in, record, attenuation, scattered).
scatter(m, ray_in, rec, att, sc, rng) ==
    IF m.kind = "lambertian" THEN Lambertian_scatter(m, ray_in, rec, att, sc, rng)
    ELSE IF m.kind = "metal" THEN Metal_scatter(m, ray_in, rec, att, sc, rng)
    ELSE IF m.kind = "dielectric" THEN Dielectric_scatter(m, ray_in, rec, att, sc, rng)
    ELSE DiffuseLight_scatter(m, ray_in, rec, att, sc, rng)

(***************************************************************************)
(* The state: the operands and results of the calls, and the locals of     *)
(* ray_color's loop.                                                       *)
(***************************************************************************)
VARIABLES
    pc,        \* "idle", or the call that was made
    box0,      \* an AABB (this, or surrounding_box's first operand)
    box1,      \* surrounding_box's second operand
    objects,   \* HittableList::objects
    tree,      \* the BVHNode built from objects, NullPtr before and after a throw
    ray,       \* the ray of a hit or scatter call
    t_min,     \* the window of a hit call
    t_max,
    record,    \* the caller's HitRecord
    ret,       \* what the call returned
    list_record,  \* the caller's HitRecord of the linear scan's call
    list_ret,     \* what the linear scan returned
    material,     \* the material of a scatter call
    attenuation,  \* scatter's output parameters
    scattered,
    draws,        \* random_double calls the scatter call made
    world,        \* ray_color's world
    depth,        \* ray_color's depth
    loop_i,       \* ray_color's loop counter i
    cur_ray,      \* ray_color's locals
    accumulated_attenuation,
    emitted_light,
    color,        \* what ray_color returned
    n_hit,        \* calls of world.hit that ray_color made
    n_material,   \* calls of a material's emitted or scatter that ray_color made
    span_start,   \* the span [start, end) of a BVHNode(objects, start, end) call
    span_end,
    axis,         \* the axis that call drew
    framebuffer,  \* render_image's framebuffer, a Color per cell
    cell_writes,  \* per cell, the stores made to it: [worker, i, j] in order
    unclaimed,    \* the scanlines j the dynamic schedule has not handed out yet
    row,          \* per worker, its scanline j
    col,          \* per worker, its column i
    pixel,        \* per worker, the local Color c
    wpc,          \* per worker, where it is in the loop
    rng_calls,    \* per worker, the random_double calls that advanced its thread_local state
    callee,       \* the Hittable whose hit was called
    record_before \* the caller's HitRecord when it made that call

geoVars == <<box0, box1, objects, tree, ray, t_min, t_max, record, ret, list_record,
             list_ret>>
scatterVars == <<material, attenuation, scattered, draws>>
colorVars == <<world, depth, loop_i, cur_ray, accumulated_attenuation, emitted_light,
               color, n_hit, n_material>>
spanVars == <<span_start, span_end, axis>>
renderVars == <<framebuffer, cell_writes, unclaimed, row, col, pixel, wpc, rng_calls>>
callVars == <<callee, record_before>>
vars == <<pc, geoVars, scatterVars, colorVars, spanVars, renderVars, callVars>>

NoRay == Ray(Vec3(PZero, PZero, PZero), Vec3(PZero, PZero, PZero))

Init ==
    /\ pc = "idle"
    /\ box0 = NoBox
    /\ box1 = NoBox
    /\ objects = <<>>
    /\ tree = NullPtr
    /\ ray = NoRay
    /\ t_min = PZero
    /\ t_max = PZero
    /\ record = FreshHitRecord
    /\ ret = FALSE
    /\ list_record = FreshHitRecord
    /\ list_ret = FALSE
    /\ material = NullPtr
    /\ attenuation = Black
    /\ scattered = NoRay
    /\ draws = 0
    /\ world = NullPtr
    /\ depth = 0
    /\ loop_i = 0
    /\ cur_ray = NoRay
    /\ accumulated_attenuation = White
    /\ emitted_light = Black
    /\ color = Black
    /\ n_hit = 0
    /\ n_material = 0
    /\ span_start = 0
    /\ span_end = 0
    /\ axis = 0
    /\ framebuffer = <<>>
    /\ cell_writes = <<>>
    /\ unclaimed = {}
    /\ row = <<>>
    /\ col = <<>>
    /\ pixel = <<>>
    /\ wpc = <<>>
    /\ rng_calls = <<>>
    /\ callee = NullPtr
    /\ record_before = FreshHitRecord

(***************************************************************************)
(* Calls of AABB::hit and AABB::surrounding_box                            *)
(***************************************************************************)
MaxSide == 2     \* the boxes tested by AABB::hit are [0, k]^3, k in 1..MaxSide
MaxOrigin == 2   \* ray origins have coordinates in -1..MaxOrigin
MaxT == 2        \* finite window ends are in 0..MaxT

HitBoxes == {AABB(V(0, 0, 0), V(k, k, k)) : k \in 1..MaxSide}

\* Direction components: -1, -0.0, +0.0, 1.
DirComponents == {I(-1), NZero, PZero, I(1)}
BoxRays ==
    {Ray(V(i, j, k), Vec3(dx, dy, dz)) :
        i \in -1..MaxOrigin, j \in -1..MaxOrigin, k \in -1..MaxOrigin,
        dx \in DirComponents, dy \in DirComponents, dz \in DirComponents}

Windows ==
    {w \in ({I(t) : t \in 0..MaxT} \X ({I(t) : t \in 0..MaxT} \cup {PInf})) :
        Le(w[1], w[2])}

CallAABBHit ==
    /\ pc = "idle"
    /\ \E b \in HitBoxes, r \in BoxRays, w \in Windows :
          /\ box0' = b
          /\ ray' = r
          /\ t_min' = w[1]
          /\ t_max' = w[2]
          /\ ret' = AABB_hit(b, r, w[1], w[2])
    /\ pc' = "AABB_hit"
    /\ UNCHANGED <<box1, objects, tree, record, list_record, list_ret>>
    /\ UNCHANGED <<scatterVars, colorVars>>
    /\ UNCHANGED <<spanVars, renderVars, callVars>>

\* Corners for surrounding_box: any two corners make a box, also an inverted one.
Corners == {V(i, j, k) : i \in 0..MaxSide, j \in 0..1, k \in 0..1}
AnyBoxes == {AABB(a, b) : a \in Corners, b \in Corners}

CallSurroundingBox ==
    /\ pc = "idle"
    /\ \E a \in AnyBoxes, b \in AnyBoxes :
          /\ box0' = a
          /\ box1' = b
          /\ ret' = surrounding_box(a, b)
    /\ pc' = "surrounding_box"
    /\ UNCHANGED <<objects, tree, ray, t_min, t_max, record, list_record, list_ret>>
    /\ UNCHANGED <<scatterVars, colorVars>>
    /\ UNCHANGED <<spanVars, renderVars, callVars>>

SpecAABB == Init /\ [][CallAABBHit \/ CallSurroundingBox]_vars


\* The point of ray r at parameter t lies within the slabs of box b on the axes
\* 0..a, and t lies in [tmin, tmax].
InSlabsAndWindow(b, r, t, a, tmin, tmax) ==
    /\ Le(tmin, t)
    /\ Le(t, tmax)
    /\ \A k \in 0..a :
          LET p == Add(Comp(r.origin, k), Mul(Comp(r.direction, k), t))
          IN  Le(Comp(b.minimum, k), p) /\ Le(p, Comp(b.maximum, k))

\* The ends an interval of such parameters can have: the window's and, on the
\* axes the ray is not parallel to, the parameters of the slab's two planes.
IntervalEnds(b, r, tmin, tmax) ==
    {e \in {PZero, tmin, tmax}
           \cup {Div(Sub(Comp(b.minimum, k), Comp(r.origin, k)), Comp(r.direction, k)) :
                    k \in {j \in 0..2 : ~IsZero(Comp(r.direction, j))}}
           \cup {Div(Sub(Comp(b.maximum, k), Comp(r.origin, k)), Comp(r.direction, k)) :
                    k \in {j \in 0..2 : ~IsZero(Comp(r.direction, j))}} :
        IsFinite(e)}

\* The slab intervals of the axes 0..a and the window have a parameter in common.
SlabsOverlapWindow(b, r, a, tmin, tmax) ==
    \E t \in IntervalEnds(b, r, tmin, tmax) : InSlabsAndWindow(b, r, t, a, tmin, tmax)

\* C6: if on some axis the ray's slab interval does not overlap the window as the
\* axes before it narrowed it, AABB::hit returns false; a zero direction component
\* with the origin strictly outside the slab is such a case.
C6_NoOverlapIsMiss ==
    (pc = "AABB_hit" /\ \E a \in 0..2 : ~SlabsOverlapWindow(box0, ray, a, t_min, t_max))
        => ret = FALSE

\* A ray parallel to the x slabs (+0.0 or -0.0) that starts strictly outside them,
\* asked over an unbounded window, and reported as a miss.
C6_Witness ==
    /\ pc = "AABB_hit"
    /\ ray.direction.x = NZero
    /\ Gt(ray.origin.x, box0.maximum.x)
    /\ t_max = PInf
    /\ SlabsOverlapWindow(box0, [ray EXCEPT !.origin.x = box0.maximum.x], 2, t_min, t_max)
    /\ ret = FALSE

ValidBox(b) == \A a \in 0..2 : Le(Comp(b.minimum, a), Comp(b.maximum, a))

\* C7: surrounding_box(A, B) contains A and B: its minimum is componentwise <= both
\* minima and its maximum >= both maxima, and it keeps min <= max when A and B do.
C7_SurroundingContainsBoth ==
    pc = "surrounding_box" =>
        /\ \A a \in 0..2 :
              /\ Le(Comp(ret.minimum, a), Comp(box0.minimum, a))
              /\ Le(Comp(ret.minimum, a), Comp(box1.minimum, a))
              /\ Ge(Comp(ret.maximum, a), Comp(box0.maximum, a))
              /\ Ge(Comp(ret.maximum, a), Comp(box1.maximum, a))
        /\ (ValidBox(box0) /\ ValidBox(box1)) => ValidBox(ret)

\* Two proper boxes neither of which contains the other: the union is a third box.
C7_Witness ==
    /\ pc = "surrounding_box"
    /\ ValidBox(box0)
    /\ ValidBox(box1)
    /\ ret # box0
    /\ ret # box1


(***************************************************************************)
(* Calls of Sphere::hit with a unit-direction ray through the centre       *)
(***************************************************************************)
MaxRadius == 2   \* radii are in 1..MaxRadius
MaxDist == 4     \* the origin is 0..MaxDist away from the centre

Gray == Lambertian(Color(Q(1, 2), Q(1, 2), Q(1, 2)))

\* Unit vectors with exact components.
UnitDirs ==
    {V(1, 0, 0), V(-1, 0, 0), V(0, 1, 0), V(0, -1, 0), V(0, 0, 1), V(0, 0, -1),
     Vec3(Q(3, 5), Q(4, 5), PZero), Vec3(PZero, Q(-4, 5), Q(3, 5))}

SphereCenters == {V(0, 0, 0), V(1, -2, 3)}

SphereWindows ==
    {w \in ({I(t) : t \in 0..(MaxDist + MaxRadius)}
              \X ({I(t) : t \in 0..(MaxDist + MaxRadius)} \cup {PInf})) :
        Le(w[1], w[2])}

CallSphereHit ==
    /\ pc = "idle"
    /\ \E c \in SphereCenters, rad \in 1..MaxRadius, u \in UnitDirs, dist \in 0..MaxDist,
          w \in SphereWindows :
          \E s \in {Sphere(1, c, I(rad), Gray)}, r \in {Ray(VSub(c, VScale(u, I(dist))), u)} :
             \E h \in {Sphere_hit(s, r, w[1], w[2], FreshHitRecord)} :
                /\ objects' = <<s>>
                /\ ray' = r
                /\ t_min' = w[1]
                /\ t_max' = w[2]
                /\ ret' = h.hit
                /\ record' = h.rec
    /\ pc' = "Sphere_hit"
    /\ UNCHANGED <<box0, box1, tree, list_record, list_ret>>
    /\ UNCHANGED <<scatterVars, colorVars>>
    /\ UNCHANGED <<spanVars, renderVars, callVars>>

SpecSphere == Init /\ [][CallSphereHit]_vars

InWindow(t) == Le(t_min, t) /\ Le(t, t_max)

\* The distance from the ray's origin to the centre of objects[1].
CenterDistance == length(VSub(objects[1].center, ray.origin))

\* The ray of the call has a unit direction and points at the centre from outside.
AimedAtCenterFromOutside ==
    /\ length_squared(ray.direction) = One
    /\ VSub(objects[1].center, ray.origin) = VScale(ray.direction, CenterDistance)
    /\ Gt(CenterDistance, objects[1].radius)

\* C8: for a unit-direction ray aimed at the centre of a sphere of radius r from
\* distance d > r, Sphere::hit returns t = d-r when d-r is in [tMin, tMax], t = d+r
\* when d-r is outside the window and d+r inside, and no hit when neither is inside.
C8_CenterRayRoots ==
    (pc = "Sphere_hit" /\ AimedAtCenterFromOutside) =>
        LET near == Sub(CenterDistance, objects[1].radius)
            far == Add(CenterDistance, objects[1].radius)
        IN  IF InWindow(near) THEN ret /\ record.t = near
            ELSE IF InWindow(far) THEN ret /\ record.t = far
            ELSE ~ret

\* The near root lies before the window and the far root in it: t = d+r.
C8_Witness ==
    /\ pc = "Sphere_hit"
    /\ AimedAtCenterFromOutside
    /\ ~InWindow(Sub(CenterDistance, objects[1].radius))
    /\ InWindow(Add(CenterDistance, objects[1].radius))
    /\ ret
    /\ record.t = Add(CenterDistance, objects[1].radius)


(***************************************************************************)
(* Building the BVH from a collection, and asking the tree and the list    *)
(* the same question                                                       *)
(***************************************************************************)
MaxObjects == 3   \* the collections hold 1..MaxObjects primitives
MaxCenter == 1    \* the centres are (i, 0, 0), i in 0..MaxCenter, and (0, 2, 0)

SceneCenters == {V(i, 0, 0) : i \in 0..MaxCenter} \cup {V(0, 2, 0)}

\* A primitive that reports no bounding box: an empty HittableList.
Unbounded == HittableList(<<>>)

\* The collections: unit spheres on the grid and unbounded primitives.
Collections ==
    UNION {
      {[k \in 1..n |-> IF c[k] = Unbounded THEN Unbounded ELSE Sphere(k, c[k], One, Gray)] :
          c \in [1..n -> SceneCenters \cup {Unbounded}]} :
      n \in 1..MaxObjects}

\* BVHNode bvh_tree(world): the constructor over the whole vector, which it sorts.
Build ==
    /\ pc = "idle"
    /\ \E objs \in Collections :
          \E out \in BVHNode_build(objs, 0, Len(objs)) :
             /\ objects' = out.objects
             /\ tree' = IF out.ok THEN out.node ELSE NullPtr
             /\ pc' = IF out.ok THEN "built" ELSE "build_error"
    /\ UNCHANGED <<box0, box1, ray, t_min, t_max, record, ret, list_record, list_ret>>
    /\ UNCHANGED <<scatterVars, colorVars>>
    /\ UNCHANGED <<spanVars, renderVars, callVars>>

\* Rays along the axes: in the plane of the centres, from outside the spheres, from
\* their surfaces and from inside them, and one down onto the plane.
SceneRays ==
    {Ray(V(i, j, 0), u) :
        i \in {-2, -1, 0, MaxCenter + 2}, j \in {-2, 0, 1},
        u \in {V(1, 0, 0), V(-1, 0, 0), V(0, 1, 0)}}
    \cup {Ray(V(0, 0, 3), V(0, 0, -1))}

\* [0, inf), [0, k] and [k, inf)
SceneWindows ==
    {<<PZero, PInf>>} \cup {<<PZero, I(k)>> : k \in 1..MaxT}
                      \cup {<<I(k), PInf>> : k \in 1..MaxT}

\* tree.hit(ray, t_min, t_max, record) and world.hit(ray, t_min, t_max, list_record)
HitBoth ==
    /\ pc = "built"
    /\ \E r \in SceneRays, w \in SceneWindows :
          \E b \in {Hit(tree, r, w[1], w[2], FreshHitRecord)},
             l \in {Hit(HittableList(objects), r, w[1], w[2], FreshHitRecord)} :
                /\ ray' = r
                /\ t_min' = w[1]
                /\ t_max' = w[2]
                /\ ret' = b.hit
                /\ record' = b.rec
                /\ list_ret' = l.hit
                /\ list_record' = l.rec
    /\ pc' = "hit"
    /\ UNCHANGED <<box0, box1, objects, tree>>
    /\ UNCHANGED <<scatterVars, colorVars>>
    /\ UNCHANGED <<spanVars, renderVars, callVars>>

SpecBuild == Init /\ [][Build]_vars
SpecBVH == Init /\ [][Build \/ HitBoth]_vars

\* C1: the tree reports a hit exactly when the linear scan over the same set does,
\* and then with the same closest distance t, whatever the window and the axes drawn.
C1_TreeEqualsLinearScan ==
    pc = "hit" => /\ ret = list_ret
                  /\ ret => record.t = list_record.t

HasUnbounded == \E k \in 1..Len(objects) : ~bounding_box(objects[k]).ok

\* C2: building from a collection in which some primitive reports no bounding box
\* ends with the exception leaving the constructor and never with a tree, whatever
\* the size of the collection, the place of that primitive and the axes drawn.
C2_UnboundedPrimitiveThrows ==
    (pc \in {"built", "build_error"} /\ HasUnbounded) =>
        (pc = "build_error" /\ tree = NullPtr)

\* Three primitives of which only the last is unbounded: the constructor threw.
C2_Witness ==
    /\ pc = "build_error"
    /\ Len(objects) = 3
    /\ Cardinality({k \in 1..3 : ~bounding_box(objects[k]).ok}) = 1
    /\ tree = NullPtr

(***************************************************************************)
(* Calls of Material::scatter on a hit record as Sphere::hit leaves it     *)
(***************************************************************************)
MaxAttempts == 2   \* rounds of random_in_unit_sphere's rejection loop

\* Values of random_double(): in (0, 1), the generator's state is never 0.
UniformDraws == {Q(1, 4000), Q(1, 2), Q(99, 100)}

\* Values of random_unit_vector().
RandomUnitVectors ==
    {V(0, 1, 0), V(0, -1, 0), V(1, 0, 0), Vec3(Q(3, 5), Q(4, 5), PZero)}

Rngs ==
    [unit : RandomUnitVectors, attempts : 1..MaxAttempts, uniform : UniformDraws]

Reddish == Color(Q(4, 5), Q(1, 2), Q(1, 5))

\* The fuzz arguments Metal is constructed with.
FuzzArguments == {Q(-1, 2), NZero, PZero, Q(1, 2), One, I(2)}

ScatterMaterials ==
    {Lambertian(Reddish), Dielectric(One), Dielectric(Q(4, 3)),
     DiffuseLight(Reddish, I(4))}
      \cup {Metal(Reddish, f) : f \in FuzzArguments}

\* Ray directions arriving at a surface point whose outward normal is (0, 1, 0):
\* head-on from outside and from inside, oblique from outside and from inside,
\* and grazing.  Not all are unit vectors.
IncomingDirections ==
    {V(0, -1, 0), V(0, 2, 0), V(3, -4, 0), V(4, -3, 0), V(3, 4, 0), V(4, 3, 0),
     V(1, 0, 0)}

HitPoint == V(0, 1, 0)
OutwardNormal == V(0, 1, 0)

IsSquareInt(k) == \E r \in {ISqrtBetween(k, 0, k)} : r * r = k
IsSquare(q) == IsFinite(q) /\ q.n >= 0 /\ IsSquareInt(q.n) /\ IsSquareInt(q.d)

\* The incidences at which a Dielectric's refracted direction has rational
\* components.
RationalRefraction(m, d, rec) ==
    LET ratio == IF rec.front_face THEN Div(One, m.ir) ELSE m.ir
        u == unit_vector(d)
        c == Fmin(Neg(dot(u, rec.normal)), One)
        perp == VScale(VAdd(u, VScale(rec.normal, c)), ratio)
    IN  m.kind = "dielectric" => IsSquare(FAbs(Sub(One, length_squared(perp))))

CallScatter ==
    /\ pc = "idle"
    /\ \E m \in ScatterMaterials, d \in IncomingDirections, rng \in Rngs :
          \E r \in {Ray(VSub(HitPoint, d), d)} :
             \E rec \in {set_face_normal(HitRecord(HitPoint, OutwardNormal, One, FALSE, m),
                                         r, OutwardNormal)} :
                /\ RationalRefraction(m, d, rec)
                /\ \E s \in {scatter(m, r, rec, Black, NoRay, rng)} :
                      /\ material' = m
                      /\ ray' = r
                      /\ record' = rec
                      /\ ret' = s.ok
                      /\ attenuation' = s.attenuation
                      /\ scattered' = s.scattered
                      /\ draws' = s.draws
    /\ pc' = "scatter"
    /\ UNCHANGED <<box0, box1, objects, tree, t_min, t_max, list_record, list_ret>>
    /\ UNCHANGED colorVars
    /\ UNCHANGED <<spanVars, renderVars, callVars>>

SpecScatter == Init /\ [][CallScatter]_vars

\* C9: a Dielectric with ir = 1.0 scatters every ray into its own (normalised)
\* direction, never bent and never mirrored, at every incidence and whatever
\* random_double returns.
C9_UnitIndexKeepsDirection ==
    (pc = "scatter" /\ material = Dielectric(One)) =>
        LET d == unit_vector(ray.direction)
        IN  /\ ret
            /\ Eq(scattered.direction.x, d.x)
            /\ Eq(scattered.direction.y, d.y)
            /\ Eq(scattered.direction.z, d.z)

ReflectedExactly ==
    LET d == unit_vector(ray.direction)
        k == Mul(I(2), dot(d, record.normal))
    IN  /\ Eq(scattered.direction.x, Sub(d.x, Mul(k, record.normal.x)))
        /\ Eq(scattered.direction.y, Sub(d.y, Mul(k, record.normal.y)))
        /\ Eq(scattered.direction.z, Sub(d.z, Mul(k, record.normal.z)))

\* C10: a Metal constructed with fuzz = 0 scatters into d - 2(d.n)n for the
\* normalised incoming direction d, makes no random_double call, and returns true
\* exactly when the scattered direction has a positive dot product with the normal.
C10_MirrorMetalReflectsExactly ==
    (pc = "scatter" /\ material.kind = "metal" /\ IsZero(material.fuzziness)) =>
        /\ ReflectedExactly
        /\ draws = 0
        /\ ret <=> Gt(dot(scattered.direction, record.normal), PZero)

\* An oblique ray from outside mirrored by a fuzz = 0 Metal: (3,-4,0)/5 leaves as
\* (3,4,0)/5 and the call returns true.
C10_Witness ==
    /\ pc = "scatter"
    /\ material = Metal(Reddish, PZero)
    /\ ray.direction = V(3, -4, 0)
    /\ scattered.direction = Vec3(Q(3, 5), Q(4, 5), PZero)
    /\ draws = 0
    /\ ret

(***************************************************************************)
(* ray_color (camera.h), one action per loop iteration                     *)
(***************************************************************************)
MaxDepth == 3      \* ray_color is called with depth in 0..MaxDepth

\* The background on a miss.
sky_color_unnormalised(direction) ==
    LET t == Mul(Q(1, 2), Add(direction.y, One))
    IN  VAdd(VScale(White, Sub(One, t)), VScale(Color(Q(1, 2), Q(7, 10), One), t))

sky_color(direction) ==
    LET unit_direction == unit_vector(direction)
        t == Mul(Q(1, 2), Add(unit_direction.y, One))
    IN  VAdd(VScale(White, Sub(One, t)), VScale(Color(Q(1, 2), Q(7, 10), One), t))

\* The loop condition i <= depth instead of i < depth.
LoopContinues_inclusive(k, dp) == k <= dp

\* for (int i = 0; i < depth; ++i)
LoopContinues(k, dp) == k < dp

\* world.hit(cur_ray, 0.001, INFINITY, record)
WorldHit(w, r) == Hit(w, r, Q(1, 1000), PInf, FreshHitRecord)

RenderMaterials ==
    {Lambertian(Reddish), Metal(Reddish, PZero), Metal(Reddish, Q(1, 2)),
     Dielectric(One), Dielectric(Q(3, 2)), DiffuseLight(Reddish, I(4))}

\* One unit sphere, at the origin or above it, or a unit sphere at the origin
\* with a light above it.
RenderScenes ==
    {<<Sphere(1, c, One, m)>> : c \in {V(0, 0, 0), V(0, 3, 0)}, m \in RenderMaterials}
      \cup {<<Sphere(1, V(0, 0, 0), One, m), Sphere(2, V(0, 3, 0), One, DiffuseLight(White, I(2)))>> :
               m \in RenderMaterials}

\* The worlds main can hand to ray_color for a scene: the list, or a tree built
\* from it.
Worlds(objs) ==
    {HittableList(objs)}
      \cup {out.node : out \in {o \in BVHNode_build(objs, 0, Len(objs)) : o.ok}}

\* Rays onto the sphere at the origin head-on, from its centre, along a tangent,
\* from inside with the exit at t = 0.001, from between the two spheres down
\* onto the lower one, and rays that leave the scene.
RenderRays ==
    {Ray(V(0, 0, 3), V(0, 0, -1)), Ray(V(0, 0, 3), V(0, 0, -2)),
     Ray(Vec3(PZero, Q(3, 2), PZero), V(0, -1, 0)),
     Ray(V(0, 0, 0), V(1, 0, 0)), Ray(V(0, 0, 0), V(0, 1, 0)),
     Ray(V(1, -3, 0), V(0, 1, 0)),
     Ray(Vec3(PZero, Q(1, 2), PZero), V(0, 500, 0)),
     Ray(V(3, 0, 0), V(0, 2, 0)), Ray(V(3, 0, 0), V(3, 4, 0)),
     Ray(V(3, 0, 0), V(1, 0, 0)), Ray(V(3, 0, 0), V(0, -1, 0))}

\* ray_color(ray, world, depth): the locals before the loop.
RayColorCall ==
    /\ pc = "idle"
    /\ \E objs \in RenderScenes, r \in RenderRays, dp \in 0..MaxDepth :
          \E w \in Worlds(objs) :
             /\ objects' = objs
             /\ world' = w
             /\ ray' = r
             /\ depth' = dp
             /\ cur_ray' = r
    /\ accumulated_attenuation' = White
    /\ emitted_light' = Black
    /\ loop_i' = 0
    /\ n_hit' = 0
    /\ n_material' = 0
    /\ pc' = "ray_color"
    /\ UNCHANGED <<box0, box1, tree, t_min, t_max, record, ret, list_record, list_ret>>
    /\ UNCHANGED <<scatterVars, color>>
    /\ UNCHANGED <<spanVars, renderVars, callVars>>

\* The scatter calls whose directions have rational components and length.
RationalScatter(m, r, rec, rng) ==
    /\ m.kind \in {"metal", "dielectric"} => IsSquare(length_squared(r.direction))
    /\ RationalRefraction(m, r.direction, rec)
    /\ LET s == scatter(m, r, rec, Black, NoRay, rng)
       IN  s.ok => IsSquare(length_squared(s.scattered.direction))

\* One iteration of the loop: the world is queried; on a hit the material's
\* emission is added and the material scatters or ends the path; on a miss the
\* background ends the path.
RayColorIterate ==
    /\ pc = "ray_color"
    /\ LoopContinues(loop_i, depth)
    /\ n_hit' = n_hit + 1
    /\ \E h \in {WorldHit(world, cur_ray)} :
          /\ record' = h.rec
          /\ ret' = h.hit
          /\ IF h.hit
             THEN \E glow \in {VAdd(emitted_light,
                                    VMul(accumulated_attenuation, emitted(h.rec.material)))} :
                  \E rng \in Rngs :
                    /\ RationalScatter(h.rec.material, cur_ray, h.rec, rng)
                    /\ \E s \in {scatter(h.rec.material, cur_ray, h.rec, Black, NoRay, rng)} :
                          /\ n_material' = n_material + 2
                          /\ emitted_light' = glow
                          /\ attenuation' = s.attenuation
                          /\ scattered' = s.scattered
                          /\ draws' = s.draws
                          /\ material' = h.rec.material
                          /\ IF s.ok
                             THEN /\ accumulated_attenuation' =
                                        VMul(accumulated_attenuation, s.attenuation)
                                  /\ cur_ray' = s.scattered
                                  /\ loop_i' = loop_i + 1
                                  /\ UNCHANGED color
                                  /\ pc' = "ray_color"
                             ELSE /\ color' = glow
                                  /\ pc' = "returned"
                                  /\ UNCHANGED <<accumulated_attenuation, cur_ray, loop_i>>
             ELSE /\ color' = VAdd(emitted_light,
                                   VMul(accumulated_attenuation, sky_color(cur_ray.direction)))
                  /\ pc' = "returned"
                  /\ UNCHANGED <<accumulated_attenuation, emitted_light, cur_ray, loop_i,
                                 n_material, scatterVars>>
    /\ UNCHANGED <<box0, box1, objects, tree, ray, t_min, t_max, list_record, list_ret>>
    /\ UNCHANGED <<world, depth>>
    /\ UNCHANGED <<spanVars, renderVars, callVars>>

\* The value after the loop if what was gathered along the path were returned.
ExhaustedColor_gathered(emitted_so_far, attenuation_so_far) ==
    VAdd(emitted_so_far, attenuation_so_far)

\* return Color(0, 0, 0) after the loop, whatever was gathered along the path.
ExhaustedColor(emitted_so_far, attenuation_so_far) == Black

\* The loop ends with i = depth.
RayColorExhaust ==
    /\ pc = "ray_color"
    /\ ~LoopContinues(loop_i, depth)
    /\ color' = ExhaustedColor(emitted_light, accumulated_attenuation)
    /\ pc' = "returned"
    /\ UNCHANGED <<geoVars, scatterVars>>
    /\ UNCHANGED <<world, depth, loop_i, cur_ray, accumulated_attenuation, emitted_light,
                   n_hit, n_material>>
    /\ UNCHANGED <<spanVars, renderVars, callVars>>

SpecRayColor == Init /\ [][RayColorCall \/ RayColorIterate \/ RayColorExhaust]_vars

\* The ray ray_color was called with meets objects[k] within [0.001, +inf).
Intersects(k) == Sphere_hit(objects[k], ray, Q(1, 1000), PInf, FreshHitRecord).hit

IntersectsNothing == \A k \in 1..Len(objects) : ~Intersects(k)

\* (1-t)*(1,1,1) + t*(0.5,0.7,1.0) with t = 0.5*(unit(direction).y + 1)
BackgroundGradient(direction) ==
    LET t == Div(Add(Div(direction.y, length(direction)), One), I(2))
        s == Sub(One, t)
    IN  Vec3(Add(s, Mul(t, Q(1, 2))), Add(s, Mul(t, Q(7, 10))), Add(s, t))

\* C3 for every max_depth, 0 included: a ray that intersects no primitive within
\* [0.001, +inf) is coloured with the background gradient of its direction and no
\* material is called.
C3_MissReturnsBackground ==
    (pc = "returned" /\ IntersectsNothing) =>
        (color = BackgroundGradient(ray.direction) /\ n_material = 0)

\* C3 for max_depth >= 1: a ray that intersects no primitive within [0.001, +inf)
\* is coloured with the background gradient of its direction and no material is
\* called, whatever the scene and whether the world is the list or a tree.
C3_MissReturnsBackgroundFromDepthOne ==
    (pc = "returned" /\ depth >= 1 /\ IntersectsNothing) =>
        (color = BackgroundGradient(ray.direction) /\ n_material = 0)

\* A ray of direction (3, 4, 0) that passes the two spheres of a tree: it returns
\* the gradient at t = 0.9.
C3_Witness ==
    /\ pc = "returned"
    /\ depth >= 1
    /\ world.kind = "bvh"
    /\ Len(objects) = 2
    /\ IntersectsNothing
    /\ ray.direction = V(3, 4, 0)
    /\ color = Color(Q(11, 20), Q(73, 100), One)
    /\ n_hit = 1

\* C4: with max_depth = 0 ray_color returns black, and from the call to the return
\* it makes no world.hit call and no material call, whatever the scene and the ray.
C4_DepthZeroIsBlack ==
    (pc \in {"ray_color", "returned"} /\ depth = 0) =>
        /\ n_hit = 0
        /\ n_material = 0
        /\ pc = "returned" => color = Black

\* Depth 0 on a ray that meets a light head-on: black all the same.
C4_Witness ==
    /\ pc = "returned"
    /\ depth = 0
    /\ Len(objects) = 1
    /\ objects[1].material.kind = "diffuse_light"
    /\ Intersects(1)
    /\ color = Black
    /\ n_hit = 0

SingleLight ==
    /\ Len(objects) = 1
    /\ objects[1].radius = One
    /\ objects[1].material.kind = "diffuse_light"

\* C5: in a scene of one unit sphere with a DiffuseLight material and max_depth >= 1,
\* a ray that meets the sphere within [0.001, +inf) is coloured brightness * color
\* and a ray that misses it is coloured with the background gradient.
C5_SingleLightSphere ==
    (pc = "returned" /\ SingleLight /\ depth >= 1) =>
        IF Intersects(1)
        THEN color = VScale(objects[1].material.emit_color, objects[1].material.brightness)
        ELSE color = BackgroundGradient(ray.direction)

\* C11: the fuzziness a Metal stores is within [0, 1], never negative and never
\* greater than 1, whatever fuzz value its constructor was given.
C11_FuzzinessClamped ==
    (pc = "scatter" /\ material.kind = "metal") =>
        (Ge(material.fuzziness, PZero) /\ Le(material.fuzziness, One))

\* C12: for max_depth >= 1, a path whose first max_depth queries all hit and whose
\* hit materials all scatter returns black whatever attenuation and emitted light
\* it gathered, after exactly max_depth queries; and no call ever makes more than
\* max_depth queries.
C12_ExhaustionIsBlack ==
    /\ (pc = "returned" /\ depth >= 1 /\ loop_i = depth) =>
          (color = Black /\ n_hit = depth)
    /\ pc \in {"ray_color", "returned"} => n_hit <= depth

\* Three bounces inside a coloured sphere: the attenuation gathered is not white,
\* and the path returns black after three queries.
C12_Witness ==
    /\ pc = "returned"
    /\ depth = MaxDepth
    /\ loop_i = depth
    /\ n_hit = depth
    /\ n_material = 2 * depth
    /\ accumulated_attenuation # White
    /\ color = Black

(***************************************************************************)
(* Calls of BVHNode(objects, start, end) on a span of the vector           *)
(***************************************************************************)
MaxSpanObjects == 4   \* the vector holds 1..MaxSpanObjects spheres

\* Centres whose boxes have distinct minima along x and y and equal minima along z.
SpanCenters == {V(0, 0, 0), V(1, 2, 0), V(2, 1, 0)}

\* Vectors of unit spheres; a sphere's id is its place in the vector before the call.
SpanCollections ==
    UNION {
      {[k \in 1..n |-> Sphere(k, c[k], One, Gray)] : c \in [1..n -> SpanCenters]} :
      n \in 1..MaxSpanObjects}

\* BVHNode(objects, start, end) with the axis random_int(0, 2) returned.
ConstructSpan ==
    /\ pc = "idle"
    /\ \E objs \in SpanCollections :
          \E start \in 0..(Len(objs) - 1), a \in 0..2 :
             \E end \in (start + 1)..Len(objs) :
                \E out \in BVHNode_build_axis(objs, start, end, a) :
                   /\ out.ok
                   /\ objects' = out.objects
                   /\ tree' = out.node
                   /\ span_start' = start
                   /\ span_end' = end
                   /\ axis' = a
    /\ pc' = "constructed"
    /\ UNCHANGED <<box0, box1, ray, t_min, t_max, record, ret, list_record, list_ret>>
    /\ UNCHANGED <<scatterVars, colorVars, renderVars, callVars>>

SpecSpan == Init /\ [][ConstructSpan]_vars

\* The primitives under a node.
RECURSIVE Leaves(_)
Leaves(h) ==
    IF h.kind = "bvh" THEN Leaves(h.left) \cup Leaves(h.right) ELSE {h}

\* The bounding-box minimum of a primitive along the axis drawn.
SortKey(h) == Comp(bounding_box(h).box.minimum, axis)

\* a comes before b when the span is ordered by the minimum with equal minima in
\* their order before the call.
BeforeInStableOrder(a, b) ==
    Lt(SortKey(a), SortKey(b)) \/ (Eq(SortKey(a), SortKey(b)) /\ a.id < b.id)

SpanMid == span_start + (span_end - span_start) \div 2

\* C13: a span of n >= 3 primitives is ordered by bounding-box minimum along the
\* axis drawn, primitives of equal minimum keeping their order before the call, and
\* split at start + n/2: the left subtree holds the first floor(n/2) primitives of
\* that order and the right subtree the others.
C13_StableSortedSplit ==
    (pc = "constructed" /\ span_end - span_start >= 3) =>
        /\ Cardinality(Leaves(tree.left)) = SpanMid - span_start
        /\ Cardinality(Leaves(tree.right)) = span_end - SpanMid
        /\ Leaves(tree.left) \cup Leaves(tree.right)
              = {objects[k] : k \in (span_start + 1)..span_end}
        /\ \A a \in Leaves(tree.left), b \in Leaves(tree.right) : BeforeInStableOrder(a, b)

(***************************************************************************)
(* render_image (main.cpp): the scanlines of "#pragma omp parallel for     *)
(* schedule(dynamic)" are handed out one at a time to whichever worker     *)
(* asks next; a worker renders the pixels of its scanline from left to     *)
(* right and stores each in the framebuffer.  What render_pixel touches    *)
(* is its worker's own state (the thread_local generator, the locals of    *)
(* ray_color) and, read-only, the camera and the world.                    *)
(***************************************************************************)
image_width == 2
image_height == 3
NumWorkers == 2     \* the threads of the parallel region

Workers == 1..NumWorkers
Cells == 0..(image_width * image_height - 1)

\* The colours render_pixel returns, whatever the samples drew.
PixelColors == {Black, White}

\* The worlds rendered: the tree over a light, or the list.
RenderedWorlds ==
    UNION {Worlds(<<Sphere(1, V(0, 0, 0), One, m)>>) :
              m \in {DiffuseLight(White, I(2))}}

\* The cell index with the row stride taken from the image height.
CellIndex_height_stride(ci, cj, w, h) == (h - 1 - cj) * h + ci

\* flipped_j * image_width + i
CellIndex(ci, cj, w, h) == (h - 1 - cj) * w + ci

\* render_image(framebuffer, ...) is entered: std::vector<Color> framebuffer(W * H)
\* holds (0,0,0) everywhere, and the parallel region starts its workers.
RenderImageCall ==
    /\ pc = "idle"
    /\ \E w \in RenderedWorlds :
          /\ world' = w
          /\ objects' = <<Sphere(1, V(0, 0, 0), One, DiffuseLight(White, I(2)))>>
    /\ framebuffer' = [c \in Cells |-> Black]
    /\ cell_writes' = [c \in Cells |-> <<>>]
    /\ unclaimed' = 0..(image_height - 1)
    /\ row' = [t \in Workers |-> 0]
    /\ col' = [t \in Workers |-> 0]
    /\ pixel' = [t \in Workers |-> Black]
    /\ wpc' = [t \in Workers |-> "next_row"]
    /\ rng_calls' = [t \in Workers |-> 0]
    /\ pc' = "render_image"
    /\ UNCHANGED <<box0, box1, tree, ray, t_min, t_max, record, ret, list_record, list_ret>>
    /\ UNCHANGED <<scatterVars, spanVars, callVars>>
    /\ UNCHANGED <<depth, loop_i, cur_ray, accumulated_attenuation, emitted_light, color,
                   n_hit, n_material>>

\* A worker asks the schedule for work and is handed a scanline no worker had yet.
TakeRow(t) ==
    /\ pc = "render_image"
    /\ wpc[t] = "next_row"
    /\ unclaimed # {}
    /\ \E j \in unclaimed :
          /\ row' = [row EXCEPT ![t] = j]
          /\ unclaimed' = unclaimed \ {j}
    /\ col' = [col EXCEPT ![t] = 0]
    /\ wpc' = [wpc EXCEPT ![t] = IF 0 < image_width THEN "render_pixel" ELSE "next_row"]
    /\ UNCHANGED <<pc, geoVars, scatterVars, colorVars, spanVars, callVars>>
    /\ UNCHANGED <<framebuffer, cell_writes, pixel, rng_calls>>

\* Color c = render_pixel(i, j, ...): two random_double calls per sample for u and
\* v on the worker's own generator; the camera and the world are read.
RenderPixel(t) ==
    /\ pc = "render_image"
    /\ wpc[t] = "render_pixel"
    /\ \E c \in PixelColors : pixel' = [pixel EXCEPT ![t] = c]
    /\ rng_calls' = [rng_calls EXCEPT ![t] = @ + 2]
    /\ wpc' = [wpc EXCEPT ![t] = "store"]
    /\ UNCHANGED <<pc, geoVars, scatterVars, colorVars, spanVars, callVars>>
    /\ UNCHANGED <<framebuffer, cell_writes, unclaimed, row, col>>

\* framebuffer[flipped_j * image_width + i] = c; ++i.  A store outside the vector
\* is undefined behaviour.
StorePixel(t) ==
    /\ pc = "render_image"
    /\ wpc[t] = "store"
    /\ \E cell \in {CellIndex(col[t], row[t], image_width, image_height)} :
          IF cell \in Cells
          THEN /\ framebuffer' = [framebuffer EXCEPT ![cell] = pixel[t]]
               /\ cell_writes' = [cell_writes EXCEPT
                                    ![cell] = Append(@, [worker |-> t, i |-> col[t],
                                                         j |-> row[t]])]
               /\ col' = [col EXCEPT ![t] = @ + 1]
               /\ wpc' = [wpc EXCEPT ![t] = IF col[t] + 1 < image_width
                                            THEN "render_pixel" ELSE "next_row"]
               /\ pc' = pc
          ELSE /\ pc' = "out_of_bounds"
               /\ UNCHANGED <<framebuffer, cell_writes, col, wpc>>
    /\ UNCHANGED <<geoVars, scatterVars, colorVars, spanVars, callVars>>
    /\ UNCHANGED <<unclaimed, row, pixel, rng_calls>>

\* No scanline is left: the worker reaches the end of the loop.
WorkerDone(t) ==
    /\ pc = "render_image"
    /\ wpc[t] = "next_row"
    /\ unclaimed = {}
    /\ wpc' = [wpc EXCEPT ![t] = "done"]
    /\ UNCHANGED <<pc, geoVars, scatterVars, colorVars, spanVars, callVars>>
    /\ UNCHANGED <<framebuffer, cell_writes, unclaimed, row, col, pixel, rng_calls>>

\* The barrier at the end of the parallel loop: render_image returns.
RenderImageReturn ==
    /\ pc = "render_image"
    /\ \A t \in Workers : wpc[t] = "done"
    /\ pc' = "rendered"
    /\ UNCHANGED <<geoVars, scatterVars, colorVars, spanVars, renderVars, callVars>>

SpecRender ==
    Init /\ [][RenderImageCall \/ RenderImageReturn
               \/ \E t \in Workers : TakeRow(t) \/ RenderPixel(t) \/ StorePixel(t)
                                       \/ WorkerDone(t)]_vars

WrittenOnceByItsPixel ==
    pc \in {"render_image", "rendered"} =>
        /\ \A c \in Cells :
              /\ Len(cell_writes[c]) <= 1
              /\ \A k \in 1..Len(cell_writes[c]) :
                    /\ cell_writes[c][k].i \in 0..(image_width - 1)
                    /\ cell_writes[c][k].j \in 0..(image_height - 1)
                    /\ c = (image_height - 1 - cell_writes[c][k].j) * image_width
                              + cell_writes[c][k].i
        /\ pc = "rendered" => \A c \in Cells : Len(cell_writes[c]) = 1

SceneReadOnly ==
    pc = "render_image" => (world' = world /\ objects' = objects /\ tree' = tree)

\* C14: under every interleaving of the workers and every hand-out of scanlines,
\* no store falls outside the framebuffer, a cell is never stored to twice, the
\* store to a cell is the one of the pixel (i, j) with cell = (H-1-j)*W + i, every
\* cell has been stored to once when render_image returns, and while rendering no
\* step changes the world, its primitives or their materials.
C14_EachCellWrittenOnce ==
    /\ [](pc # "out_of_bounds" /\ WrittenOnceByItsPixel)
    /\ [][SceneReadOnly]_vars

\* render_image has returned after both workers stored pixels, one of them the
\* top-left cell from the last scanline.
C14_Witness ==
    /\ pc = "rendered"
    /\ \A t \in Workers : \E c \in Cells : cell_writes[c][1].worker = t
    /\ cell_writes[0][1].j = image_height - 1
    /\ cell_writes[0][1].i = 0
    /\ world.kind = "bvh"

(***************************************************************************)
(* Calls of hit on a Sphere, a HittableList and a BVHNode with a HitRecord *)
(* the caller has used before                                              *)
(***************************************************************************)
MaxHitObjects == 3   \* the scenes hold 1..MaxHitObjects spheres

\* Two unit spheres apart on the x axis, so that a ray can pass between them.
HitCenters == {V(0, 0, 0), V(4, 0, 0)}

HitScenes ==
    UNION {
      {[k \in 1..n |-> Sphere(k, c[k], One, Gray)] : c \in [1..n -> HitCenters]} :
      n \in 1..MaxHitObjects}

\* Along the x axis through both spheres from either side and from between them,
\* between the spheres across the axis, through the first sphere only, and past
\* every box.
HitRays ==
    {Ray(V(-2, 0, 0), V(1, 0, 0)), Ray(V(6, 0, 0), V(-1, 0, 0)),
     Ray(V(2, 0, 0), V(1, 0, 0)), Ray(V(2, -2, 0), V(0, 1, 0)),
     Ray(V(0, -3, 0), V(0, 1, 0)), Ray(V(0, 0, 3), V(0, 0, 1))}

HitWindows == {<<PZero, PInf>>, <<PZero, I(2)>>, <<I(2), PInf>>}

\* A record left by an earlier hit, and a default-constructed one.
UsedRecord == HitRecord(V(9, 9, 9), V(0, 0, 1), I(7), TRUE, Reddish)
CallerRecords == {FreshHitRecord, UsedRecord}

\* h->hit(ray, t_min, t_max, record) on a sphere of the scene, on the list, or on
\* a tree built from it.
CallHit ==
    /\ pc = "idle"
    /\ \E objs \in HitScenes, r \in HitRays, w \in HitWindows, before \in CallerRecords :
          \E h \in Worlds(objs) \cup {objs[k] : k \in 1..Len(objs)} :
             \E out \in {Hit(h, r, w[1], w[2], before)} :
                /\ objects' = objs
                /\ callee' = h
                /\ record_before' = before
                /\ ray' = r
                /\ t_min' = w[1]
                /\ t_max' = w[2]
                /\ ret' = out.hit
                /\ record' = out.rec
    /\ pc' = "called_hit"
    /\ UNCHANGED <<box0, box1, tree, list_record, list_ret>>
    /\ UNCHANGED <<scatterVars, colorVars, spanVars, renderVars>>

SpecHit == Init /\ [][CallHit]_vars

\* The call was on a BVHNode whose box the ray meets, whose left child reports a
\* hit and whose right child, asked up to that hit, reports a miss.
LeftHitRightMiss ==
    /\ pc = "called_hit"
    /\ callee.kind = "bvh"
    /\ AABB_hit(callee.box, ray, t_min, t_max)
    /\ Hit(callee.left, ray, t_min, t_max, record_before).hit
    /\ ~Hit(callee.right, ray, t_min,
            Hit(callee.left, ray, t_min, t_max, record_before).rec.t,
            Hit(callee.left, ray, t_min, t_max, record_before).rec).hit

\* C15: when hit returns false on a Sphere, a HittableList or a BVHNode, the
\* caller's record is what it was before the call, field for field; and when a
\* BVHNode's left child hits and its right child misses, the record the caller gets
\* is the one the left child wrote.
C15_MissLeavesRecord ==
    /\ (pc = "called_hit" /\ ~ret) => record = record_before
    /\ LeftHitRightMiss =>
          (ret /\ record = Hit(callee.left, ray, t_min, t_max, record_before).rec)

\* A tree of two spheres whose box the ray crosses between them: both children
\* miss and the caller's used record is as it was.
C15_Witness ==
    /\ pc = "called_hit"
    /\ callee.kind = "bvh"
    /\ callee.left.kind = "sphere"
    /\ callee.left # callee.right
    /\ AABB_hit(callee.box, ray, t_min, t_max)
    /\ ~ret
    /\ record_before = UsedRecord
    /\ record = UsedRecord

\* C16: emitted_light is (0,0,0) whenever an iteration of the loop starts and the
\* material whose scattering led there emits nothing; so a path that runs out of
\* depth returns black with no emitted light gathered, a path that ends on a hit
\* returns the attenuated emission of that one material, and a path that ends on a
\* miss returns the attenuated background alone.
C16_NoEmissionCarriedOver ==
    /\ pc = "ray_color" =>
          /\ emitted_light = Black
          /\ loop_i > 0 => emitted(material) = Black
    /\ pc = "returned" =>
          IF loop_i = depth
          THEN emitted_light = Black /\ color = Black
          ELSE IF ret
          THEN color = VAdd(Black, VMul(accumulated_attenuation, emitted(record.material)))
          ELSE color = VAdd(Black, VMul(accumulated_attenuation,
                                        sky_color(cur_ray.direction)))

\* A path that bounced off a tinted surface before it met a light: it ends there
\* with the light's attenuated emission as its colour.
C16_Witness ==
    /\ pc = "returned"
    /\ accumulated_attenuation # White
    /\ loop_i >= 1
    /\ loop_i < depth
    /\ ret
    /\ record.material.kind = "diffuse_light"
    /\ emitted_light # Black
    /\ color = emitted_light

=============================================================================
